---------------------------- MODULE Spec2Model ----------------------------
(***************************************************************************)
(* Model of the Polly Dialogue Builder (src/app.py).                       *)
(*                                                                         *)
(* The program is a Streamlit script: every user interaction runs the      *)
(* whole script once, top to bottom, against the session state, the widget *)
(* values and the process-wide cache of get_polly_and_voices.  One script  *)
(* run is the operator Script, and one step of the model.  A run that ends  *)
(* in st.rerun() leaves a rerun pending; the next step is then the run the *)
(* script runner starts, with the widgets as that run left them.           *)
(*                                                                         *)
(* Text is a sequence of one-character strings, so that splitlines() and   *)
(* strip() are modelled character by character.  A character TLA+ cannot   *)
(* write with an escape is named by its code point ("U+00A0").             *)
(***************************************************************************)
EXTENDS Naturals, Sequences, FiniteSets

VARIABLES
    cache,              \* st.cache_resource entry of get_polly_and_voices
    voice_quality,      \* sidebar selectbox "Voice Quality"
    sample_rate,        \* sidebar selectbox "Sample Rate"
    selected_language,  \* sidebar selectbox "Language"
    has_speakers,       \* "speakers" in st.session_state
    speakers,           \* st.session_state.speakers
    VOICES,             \* filtered voice list of the latest script run
    screen,             \* what the latest script run rendered
    fetched,            \* the latest script run called describe_voices
    requests,           \* synthesize_speech calls of the latest script run
    audio_chunks,       \* audio_chunks at the end of the latest script run
    tmp,                \* chunks written to the temporary mp3 file
    clicked,            \* the button that returned True in the latest run
    rerun,              \* the latest script run ended in st.rerun()
    polly_rejects       \* texts the provider currently rejects (environment)

vars == <<cache, voice_quality, sample_rate, selected_language, has_speakers,
          speakers, VOICES, screen, fetched, requests, audio_chunks, tmp,
          clicked, rerun, polly_rejects>>

---------------------------------------------------------------------------
(* Bounds of the model *)

\* Turns the main specification lets the user create (the code allows 20).
MaxTurns == 2

\* Length of the text blocks drawn in SpecSplit.
MaxTextLen == 4

\* Number of voices of the catalogs drawn in SpecFilter.
MaxCatalogLen == 2

---------------------------------------------------------------------------
(* Program constants *)

\* src/app.py:105  len(st.session_state.speakers) < 20
MAX_SPEAKERS == 20

\* src/app.py:127  22050 bytes of silence per second
SILENCE_BYTES_PER_SEC == 22050

QUALITY_OPTIONS == <<"generative", "neural">>

SAMPLE_RATE_OPTIONS == <<"22050", "48000">>

---------------------------------------------------------------------------
(* Sequences and strings *)

Range(s) == {s[i] : i \in 1..Len(s)}

\* Python's order on the strings the model uses (code point order).
StrOrder ==
    <<"Ivy", "Joanna", "Lea", "Matthew", "de-DE", "en-US", "fr-FR">>

StrRank(a) == CHOOSE i \in 1..Len(StrOrder) : StrOrder[i] = a

StrLess(a, b) == StrRank(a) < StrRank(b)

RECURSIVE Insert(_, _)
Insert(s, a) ==
    IF s = <<>> THEN <<a>>
    ELSE IF StrLess(a, Head(s)) THEN <<a>> \o s
    ELSE <<Head(s)>> \o Insert(Tail(s), a)

\* sorted(list): ascending, duplicates kept.
RECURSIVE sorted(_)
sorted(s) == IF s = <<>> THEN <<>> ELSE Insert(sorted(Tail(s)), Head(s))

\* The elements of a set as a sequence in some order.
RECURSIVE SetToSeq(_)
SetToSeq(S) ==
    IF S = {} THEN <<>>
    ELSE LET a == CHOOSE a \in S : TRUE IN <<a>> \o SetToSeq(S \ {a})

\* [f(x) for x in s if p(x)] for the voice filter.
RECURSIVE SelectNames(_, _, _)
SelectNames(voices, lang, quality) ==
    IF voices = <<>> THEN <<>>
    ELSE LET v == Head(voices)
             rest == SelectNames(Tail(voices), lang, quality)
         IN IF lang = v.LanguageCode /\ quality \in v.SupportedEngines
            THEN <<v.Name>> \o rest
            ELSE rest

\* list.index(x): position (from 1) of the first occurrence.
IndexOf(s, a) == CHOOSE i \in 1..Len(s) : s[i] = a /\ \A j \in 1..(i - 1) : s[j] # a

\* list.pop(i), i from 1.
Pop(s, i) == SubSeq(s, 1, i - 1) \o SubSeq(s, i + 1, Len(s))

---------------------------------------------------------------------------
(* str.splitlines() and str.strip() *)

\* The line boundaries of str.splitlines(): \n, \v, \f, \r, the file,
\* group and record separators, NEL, LINE and PARAGRAPH SEPARATOR.
LineBoundaries ==
    {"\n", "U+000B", "\f", "\r", "U+001C", "U+001D", "U+001E", "U+0085",
     "U+2028", "U+2029"}

\* The characters str.strip() removes (str.isspace).
Whitespace ==
    {"\t", "\n", "U+000B", "\f", "\r", "U+001C", "U+001D", "U+001E", "U+001F",
     " ", "U+0085", "U+00A0", "U+1680", "U+2000", "U+2001", "U+2002",
     "U+2003", "U+2004", "U+2005", "U+2006", "U+2007", "U+2008", "U+2009",
     "U+200A", "U+2028", "U+2029", "U+202F", "U+205F", "U+3000"}

\* Scans s from position i with the current line in cur.  "\r\n" is one
\* boundary; a text that ends on a boundary has no final empty line.
RECURSIVE SplitFrom(_, _, _)
SplitFrom(s, i, cur) ==
    IF i > Len(s) THEN (IF cur = <<>> THEN <<>> ELSE <<cur>>)
    ELSE IF s[i] \in LineBoundaries
         THEN LET j == IF s[i] = "\r" /\ i < Len(s) /\ s[i + 1] = "\n"
                       THEN i + 2 ELSE i + 1
              IN <<cur>> \o SplitFrom(s, j, <<>>)
         ELSE SplitFrom(s, i + 1, Append(cur, s[i]))

splitlines(s) == SplitFrom(s, 1, <<>>)

RECURSIVE lstrip(_)
lstrip(s) ==
    IF s # <<>> /\ Head(s) \in Whitespace THEN lstrip(Tail(s)) ELSE s

RECURSIVE rstrip(_)
rstrip(s) ==
    IF s # <<>> /\ s[Len(s)] \in Whitespace
    THEN rstrip(SubSeq(s, 1, Len(s) - 1)) ELSE s

strip(s) == rstrip(lstrip(s))

---------------------------------------------------------------------------
(* Widget input of one script run *)

\* No widget changed and no button pressed: a plain rerun.
NoInput == [widget |-> "none", idx |-> 0, value |-> "none"]

WidgetInput(w, i, v) == [widget |-> w, idx |-> i, value |-> v]

\* A widget returns what the user just entered, else the value it holds.
widget_value(in, w, i, current) ==
    IF in.widget = w /\ in.idx = i THEN in.value ELSE current

\* st.button: True only in the run its click triggers.
button(in, w, i) == in.widget = w /\ in.idx = i

---------------------------------------------------------------------------
(* get_polly_and_voices and the startup try/except *)

NotCached == [cached |-> FALSE, voices |-> <<>>]

\* What the body of get_polly_and_voices can meet: boto3.client(...)
\* raises, or it returns a client and polly.describe_voices() raises or
\* returns the catalog.
ClientFailed == [client |-> FALSE, ok |-> FALSE, voices |-> <<>>]

FetchFailed == [client |-> TRUE, ok |-> FALSE, voices |-> <<>>]

Fetched(catalog) == [client |-> TRUE, ok |-> TRUE, voices |-> catalog]

\* Without st.cache_resource: the body runs in every run.
get_polly_and_voices_uncached(c, fetch) ==
    IF ~fetch.client
    THEN [raised |-> TRUE, cache |-> NotCached, called |-> FALSE]
    ELSE IF ~fetch.ok
    THEN [raised |-> TRUE, cache |-> NotCached, called |-> TRUE]
    ELSE [raised |-> FALSE,
          cache |-> [cached |-> FALSE, voices |-> fetch.voices],
          called |-> TRUE]

\* @st.cache_resource: the body runs only while nothing is cached, and an
\* exception caches nothing.  called: describe_voices was called.
get_polly_and_voices(c, fetch) ==
    IF c.cached THEN [raised |-> FALSE, cache |-> c, called |-> FALSE]
    ELSE IF ~fetch.client
         THEN [raised |-> TRUE, cache |-> c, called |-> FALSE]
         ELSE IF ~fetch.ok
         THEN [raised |-> TRUE, cache |-> c, called |-> TRUE]
         ELSE [raised |-> FALSE,
               cache |-> [cached |-> TRUE, voices |-> fetch.voices],
               called |-> TRUE]

---------------------------------------------------------------------------
(* Sidebar and voice filter *)

languages(all_voices) ==
    sorted(SetToSeq({v.LanguageCode : v \in Range(all_voices)}))

\* The value selectbox returns with no options.
None == "None"

\* index=languages.index("en-US") if "en-US" in languages else 0
language_default(langs) ==
    IF langs = <<>> THEN None
    ELSE IF "en-US" \in Range(langs) THEN langs[IndexOf(langs, "en-US")]
    ELSE langs[1]

\* The filter with the quality tier left out of the condition.
RECURSIVE SelectNamesOfLanguage(_, _)
SelectNamesOfLanguage(voices, lang) ==
    IF voices = <<>> THEN <<>>
    ELSE LET v == Head(voices)
             rest == SelectNamesOfLanguage(Tail(voices), lang)
         IN IF lang = v.LanguageCode THEN <<v.Name>> \o rest ELSE rest

filter_voices_any_quality(all_voices, lang, quality) ==
    sorted(SelectNamesOfLanguage(all_voices, lang))

\* VOICES = sorted([v["Name"] for v in all_voices if ...])
filter_voices(all_voices, lang, quality) ==
    sorted(SelectNames(all_voices, lang, quality))

---------------------------------------------------------------------------
(* Speaker initialisation and the speaker loop *)

Hello ==
    <<"H","e","l","l","o","!","\n","H","o","w"," ","a","r","e"," ","y","o","u","?">>

Great ==
    <<"G","r","e","a","t",","," ","t","h","a","n","k","s","!","\n",
      "R","e","a","d","y"," ","f","o","r"," ","t","h","e"," ",
      "m","e","e","t","i","n","g","?">>

initial_speakers(VS) ==
    << [voice |-> VS[1], lines |-> Hello, pause |-> 0],
       [voice |-> IF Len(VS) > 1 THEN VS[2] ELSE VS[1], lines |-> Great,
        pause |-> 0] >>

\* Resets an invalid voice to the last voice of the list.
reset_voice_last(voice, VS) ==
    IF voice \notin Range(VS) THEN VS[Len(VS)] ELSE voice

\* if sp["voice"] not in VOICES: sp["voice"] = VOICES[0]
reset_voice(voice, VS) ==
    IF voice \notin Range(VS) THEN VS[1] ELSE voice

\* One pass of the loop body for speaker i.
speaker_body(sp, i, VS, in) ==
    LET v0 == reset_voice(sp.voice, VS)
        shown == VS[IndexOf(VS, v0)]
    IN [voice |-> widget_value(in, "voice", i, shown),
        lines |-> widget_value(in, "lines", i, sp.lines),
        pause |-> widget_value(in, "pause", i, sp.pause)]

speaker_loop(sps, VS, in) ==
    [i \in 1..Len(sps) |-> speaker_body(sps[i], i, VS, in)]

\* del_idx after the loop (0 for None): at most one button is pressed.
del_idx_of(sps, in) ==
    IF \E i \in 1..Len(sps) : button(in, "del", i) THEN in.idx ELSE 0

\* Add offered up to and including 20 speakers.
add_available_upto(n) == n <= MAX_SPEAKERS

\* len(st.session_state.speakers) < 20
add_available(n) == n < MAX_SPEAKERS

new_speaker(sps, VS) ==
    [voice |-> VS[(Len(sps) % Len(VS)) + 1], lines |-> <<>>, pause |-> 0]

---------------------------------------------------------------------------
(* synth_line and the Generate handler *)

\* polly.synthesize_speech(...) against a provider that rejects the texts
\* in rejects; the audio returned is determined by the request.
synth_line(text, voice, engine, rate, rejects) ==
    LET req == [Text |-> text, VoiceId |-> voice, Engine |-> engine,
                OutputFormat |-> "mp3", SampleRate |-> rate]
    IN [call |-> [request |-> req, raised |-> text \in rejects],
        audio |-> [type |-> "speech", of |-> req]]

\* int(22050 * (silence_ms / 1000)) in IEEE double arithmetic, for the
\* slider's values (multiples of 100 in 0..3000): the product falls just
\* below the exact integer for 700, 1400, 2300 and 2800.
silence_len(silence_ms) ==
    ((SILENCE_BYTES_PER_SEC * silence_ms) \div 1000)
        - (IF silence_ms \in {700, 1400, 2300, 2800} THEN 1 ELSE 0)

silence_bytes(silence_ms) ==
    [type |-> "silence", nbytes |-> silence_len(silence_ms)]

\* audio_chunks kept from the previous run.
fresh_run_carry(previous) ==
    [audio_chunks |-> previous, requests |-> <<>>, stopped |-> FALSE]

\* audio_chunks = []
fresh_run(previous) ==
    [audio_chunks |-> <<>>, requests |-> <<>>, stopped |-> FALSE]

\* The except branch reporting the error and carrying on with the next line.
on_synth_error_continue(run, call) ==
    [run EXCEPT !.requests = Append(@, call)]

\* except Exception: st.error(...); st.stop()
on_synth_error(run, call) ==
    [run EXCEPT !.requests = Append(@, call), !.stopped = TRUE]

\* Every line synthesised, blank or not.
keep_line_always(line) == TRUE

\* if line := line.strip()
keep_line(line) == line # <<>>

\* What the provider rejects when it receives the k-th call of a run:
\* provider lists it call by call, and the provider stays as it was at the
\* last call listed.
provider_at(provider, k) ==
    provider[IF k <= Len(provider) THEN k ELSE Len(provider)]

\* for line in sp["lines"].splitlines(): ...
\* Each synth_line call waits for the provider, which answers as it is
\* when that call reaches it.
RECURSIVE lines_loop(_, _, _, _, _, _)
lines_loop(run, lines, voice, engine, rate, provider) ==
    IF lines = <<>> \/ run.stopped THEN run
    ELSE LET line == strip(Head(lines)) IN
         IF ~keep_line(line)
         THEN lines_loop(run, Tail(lines), voice, engine, rate, provider)
         ELSE LET r == synth_line(line, voice, engine, rate,
                                  provider_at(provider, Len(run.requests) + 1))
              IN
              IF r.call.raised
              THEN lines_loop(on_synth_error(run, r.call), Tail(lines),
                              voice, engine, rate, provider)
              ELSE lines_loop([run EXCEPT
                                  !.requests = Append(@, r.call),
                                  !.audio_chunks = Append(@, r.audio)],
                              Tail(lines), voice, engine, rate, provider)

\* The silence put in front of the chunks collected so far.
pause_step_front(run, pause) ==
    IF pause # 0
    THEN [run EXCEPT !.audio_chunks = <<silence_bytes(pause)>> \o @]
    ELSE run

\* The silence appended only after some audio has been collected.
pause_step_after_audio(run, pause) ==
    IF pause # 0 /\ run.audio_chunks # <<>>
    THEN [run EXCEPT !.audio_chunks = Append(@, silence_bytes(pause))]
    ELSE run

\* if sp["pause"]: audio_chunks.append(silence_bytes)
pause_step(run, pause) ==
    IF pause # 0
    THEN [run EXCEPT !.audio_chunks = Append(@, silence_bytes(pause))]
    ELSE run

\* for sp in st.session_state.speakers: ...
RECURSIVE generate_loop(_, _, _, _, _)
generate_loop(run, sps, engine, rate, provider) ==
    IF sps = <<>> \/ run.stopped THEN run
    ELSE LET sp == Head(sps)
             r1 == lines_loop(run, splitlines(sp.lines), sp.voice, engine,
                              rate, provider)
             r2 == IF r1.stopped THEN r1 ELSE pause_step(r1, sp.pause)
         IN generate_loop(r2, Tail(sps), engine, rate, provider)

\* for chunk in audio_chunks: tmp.write(chunk)
RECURSIVE write_chunks(_, _)
write_chunks(file, chunks) ==
    IF chunks = <<>> THEN file
    ELSE write_chunks(Append(file, Head(chunks)), Tail(chunks))

\* The warning shown whether or not anything was collected.
generate_output_warn(s, run) ==
    [s EXCEPT !.screen = @ \cup {"empty_warning"} \cup
                  (IF run.audio_chunks = <<>> THEN {} ELSE {"audio", "download"}),
              !.tmp = write_chunks(<<>>, run.audio_chunks)]

\* if not audio_chunks: st.warning(...) else: write, st.audio, download
generate_output(s, run) ==
    IF run.audio_chunks = <<>>
    THEN [s EXCEPT !.screen = @ \cup {"empty_warning"}]
    ELSE [s EXCEPT !.screen = @ \cup {"audio", "download"},
                   !.tmp = write_chunks(<<>>, run.audio_chunks)]

\* The Generate handler; the provider is left as it was at the last call.
generate(s, previous_chunks, provider) ==
    LET run == generate_loop(fresh_run(previous_chunks), s.speakers,
                             s.voice_quality, s.sample_rate, provider)
        s1 == [s EXCEPT !.requests = run.requests,
                        !.audio_chunks = run.audio_chunks,
                        !.polly_rejects =
                            IF run.requests = <<>> THEN @
                            ELSE provider_at(provider, Len(run.requests))]
    IN IF run.stopped
       THEN [s1 EXCEPT !.screen = @ \cup {"polly_error"}]
       ELSE generate_output(s1, run)

---------------------------------------------------------------------------
(* One run of the script *)

\* From "Initialize speakers" to the end of the script.
form(s, in, provider) ==
    LET VS == s.VOICES
        sps0 == IF s.has_speakers THEN s.speakers ELSE initial_speakers(VS)
        sps1 == speaker_loop(sps0, VS, in)
        del_idx == del_idx_of(sps1, in)
        s1 == [s EXCEPT !.has_speakers = TRUE, !.speakers = sps1,
                        !.screen = {"sidebar", "form"}]
    IN IF del_idx # 0
       THEN [s1 EXCEPT !.speakers = Pop(sps1, del_idx), !.rerun = TRUE,
                       !.clicked = [button |-> "del", idx |-> del_idx]]
       ELSE IF add_available(Len(sps1)) /\ button(in, "add", 0)
       THEN [s1 EXCEPT !.speakers = Append(sps1, new_speaker(sps1, VS)),
                       !.screen = @ \cup {"add_button"}, !.rerun = TRUE,
                       !.clicked = [button |-> "add", idx |-> 0]]
       ELSE LET s2 == [s1 EXCEPT !.screen = @ \cup
                          (IF add_available(Len(sps1)) THEN {"add_button"} ELSE {})
                          \cup {"generate_button"}]
            IN IF button(in, "generate", 0)
               THEN generate([s2 EXCEPT !.clicked =
                                 [button |-> "generate", idx |-> 0]],
                             s.audio_chunks, provider)
               ELSE s2

\* From "Global Settings" to the empty-filter stop.
sidebar(s, in, provider) ==
    LET all_voices == s.cache.voices
        quality == widget_value(in, "quality", 0, s.voice_quality)
        rate == widget_value(in, "rate", 0, s.sample_rate)
        langs == languages(all_voices)
        held == IF s.selected_language \in Range(langs)
                THEN s.selected_language ELSE language_default(langs)
        lang == widget_value(in, "language", 0, held)
        VS == filter_voices(all_voices, lang, quality)
        s1 == [s EXCEPT !.voice_quality = quality, !.sample_rate = rate,
                        !.selected_language = lang, !.VOICES = VS]
    IN IF VS = <<>>
       THEN [s1 EXCEPT !.screen = {"sidebar", "no_voices_error"}]
       ELSE form(s1, in, provider)

\* The whole script: what one run leaves behind.  The outputs of the
\* previous run (screen, requests, file) are gone when a run starts.
Script(s, in, fetch, provider) ==
    LET got == get_polly_and_voices(s.cache, fetch)
        s0 == [s EXCEPT !.cache = got.cache, !.fetched = got.called,
                        !.VOICES = <<>>, !.screen = {}, !.requests = <<>>,
                        !.tmp = <<>>, !.rerun = FALSE,
                        !.clicked = [button |-> "none", idx |-> 0]]
        s1 == IF got.raised
              THEN [s0 EXCEPT !.screen = {"catalog_error"}]
              ELSE sidebar(s0, in, provider)
    IN IF "generate_button" \in s1.screen /\ button(in, "generate", 0)
       THEN s1
       ELSE [s1 EXCEPT !.audio_chunks = <<>>]

\* The session as a record, for Script.
Current ==
    [cache |-> cache, voice_quality |-> voice_quality,
     sample_rate |-> sample_rate, selected_language |-> selected_language,
     has_speakers |-> has_speakers, speakers |-> speakers, VOICES |-> VOICES,
     screen |-> screen, fetched |-> fetched, requests |-> requests,
     audio_chunks |-> audio_chunks, tmp |-> tmp,
     clicked |-> clicked, rerun |-> rerun, polly_rejects |-> polly_rejects]

\* One script run and what it leaves behind.
ScriptRun(in, fetch, provider) ==
    \E r \in {Script(Current, in, fetch, provider)} :
       /\ cache' = r.cache
       /\ voice_quality' = r.voice_quality
       /\ sample_rate' = r.sample_rate
       /\ selected_language' = r.selected_language
       /\ has_speakers' = r.has_speakers
       /\ speakers' = r.speakers
       /\ VOICES' = r.VOICES
       /\ screen' = r.screen
       /\ fetched' = r.fetched
       /\ requests' = r.requests
       /\ audio_chunks' = r.audio_chunks
       /\ tmp' = r.tmp
       /\ clicked' = r.clicked
       /\ rerun' = r.rerun
       /\ polly_rejects' = r.polly_rejects

\* One script run that does not press Generate.  The input is what the
\* user did to a widget since the previous run; an input that arrives
\* while a rerun is pending is taken by the run that follows.
Interact(in, fetch) == ScriptRun(in, fetch, <<polly_rejects>>)

\* st.rerun(): the script runs again with the widgets as they are.
StRerun ==
    /\ rerun
    /\ Interact(NoInput, Fetched(cache.voices))

---------------------------------------------------------------------------
(* Inputs of the model *)

Voice(name, lang, engines) ==
    [Name |-> name, LanguageCode |-> lang, SupportedEngines |-> engines]

\* The catalog of the main specification, in the provider's (unsorted)
\* order: two voices per en-US tier, one neural fr-FR voice and no
\* generative fr-FR voice.
Catalog ==
    << Voice("Matthew", "en-US", {"standard", "neural"}),
       Voice("Lea", "fr-FR", {"standard", "neural"}),
       Voice("Joanna", "en-US", {"standard", "neural", "generative"}),
       Voice("Ivy", "en-US", {"generative"}) >>

Bye == <<"B", "y", "e", "!">>

\* "Hi!\n\nBye!"
HiBye == <<"H", "i", "!", "\n", "\n", "B", "y", "e", "!">>

\* " \n\t": lines, all of them blank.
Blank == <<" ", "\n", "\t">>

EditTexts == {HiBye, Blank}

EditPauses == {0, 700}

\* Utterances the provider may come to reject.
RejectableTexts == {Bye}

---------------------------------------------------------------------------
(* Initial state and actions *)

Init ==
    /\ cache = NotCached
    /\ voice_quality = QUALITY_OPTIONS[1]
    /\ sample_rate = SAMPLE_RATE_OPTIONS[1]
    /\ selected_language = None
    /\ has_speakers = FALSE
    /\ speakers = <<>>
    /\ VOICES = <<>>
    /\ screen = {}
    /\ fetched = FALSE
    /\ requests = <<>>
    /\ audio_chunks = <<>>
    /\ tmp = <<>>
    /\ clicked = [button |-> "none", idx |-> 0]
    /\ rerun = FALSE
    /\ polly_rejects = {}

\* The page is loaded or rerun with no widget changed; describe_voices,
\* if it is called, fails or returns a catalog.
Rerun(fetch) ==
    /\ ~rerun
    /\ Interact(NoInput, fetch)

ChangeQuality(q) ==
    /\ "sidebar" \in screen
    /\ q \in Range(QUALITY_OPTIONS) \ {voice_quality}
    /\ Interact(WidgetInput("quality", 0, q), FetchFailed)

ChangeRate(r) ==
    /\ "sidebar" \in screen
    /\ r \in Range(SAMPLE_RATE_OPTIONS) \ {sample_rate}
    /\ Interact(WidgetInput("rate", 0, r), FetchFailed)

ChangeLanguage(l) ==
    /\ "sidebar" \in screen
    /\ l \in Range(languages(cache.voices)) \ {selected_language}
    /\ Interact(WidgetInput("language", 0, l), FetchFailed)

EditVoice(i, v) ==
    /\ "form" \in screen
    /\ i \in 1..Len(speakers)
    /\ v \in Range(VOICES) \ {speakers[i].voice}
    /\ Interact(WidgetInput("voice", i, v), FetchFailed)

EditLines(i, t) ==
    /\ "form" \in screen
    /\ i \in 1..Len(speakers)
    /\ t # speakers[i].lines
    /\ Interact(WidgetInput("lines", i, t), FetchFailed)

EditPause(i, p) ==
    /\ "form" \in screen
    /\ i \in 1..Len(speakers)
    /\ p # speakers[i].pause
    /\ Interact(WidgetInput("pause", i, p), FetchFailed)

RemoveSpeaker(i) ==
    /\ "form" \in screen
    /\ i \in 1..Len(speakers)
    /\ Interact(WidgetInput("del", i, TRUE), FetchFailed)

AddSpeaker ==
    /\ "add_button" \in screen
    /\ Interact(WidgetInput("add", 0, TRUE), FetchFailed)

\* The calls a Generate run over sps makes when none fails.
RECURSIVE synth_calls(_)
synth_calls(sps) ==
    IF sps = <<>> THEN 0
    ELSE LET lines == splitlines(Head(sps).lines)
         IN Cardinality({k \in 1..Len(lines) : keep_line(strip(lines[k]))})
            + synth_calls(Tail(sps))

\* What the provider rejects at each call of a run that starts now: it is
\* as it is at the first call and may change before any later one.
Providers ==
    {p \in [1..(IF synth_calls(speakers) = 0 THEN 1 ELSE synth_calls(speakers))
               -> SUBSET RejectableTexts] : p[1] = polly_rejects}

Generate ==
    /\ "generate_button" \in screen
    /\ \E provider \in Providers :
          ScriptRun(WidgetInput("generate", 0, TRUE), FetchFailed, provider)

\* The provider starts or stops rejecting a text while no call waits.
ProviderChange(rejects) ==
    /\ rejects # polly_rejects
    /\ polly_rejects' = rejects
    /\ UNCHANGED <<cache, voice_quality, sample_rate, selected_language,
                   has_speakers, speakers, VOICES, screen, fetched, requests,
                   audio_chunks, tmp, clicked, rerun>>

\* What get_polly_and_voices can meet in the next run: its body runs only
\* while nothing is cached.
FetchOutcomes(catalogs) ==
    IF cache.cached THEN {Fetched(cache.voices)}
    ELSE {ClientFailed, FetchFailed} \cup {Fetched(c) : c \in catalogs}

Next ==
    \/ \E fetch \in FetchOutcomes({Catalog}) : Rerun(fetch)
    \/ \E q \in Range(QUALITY_OPTIONS) : ChangeQuality(q)
    \/ \E r \in Range(SAMPLE_RATE_OPTIONS) : ChangeRate(r)
    \/ \E l \in Range(languages(cache.voices)) : ChangeLanguage(l)
    \/ \E i \in 1..Len(speakers), v \in Range(VOICES) : EditVoice(i, v)
    \/ \E i \in 1..Len(speakers), t \in EditTexts : EditLines(i, t)
    \/ \E i \in 1..Len(speakers), p \in EditPauses : EditPause(i, p)
    \/ \E i \in 1..Len(speakers) : RemoveSpeaker(i)
    \/ Len(speakers) < MaxTurns /\ AddSpeaker
    \/ Generate
    \/ StRerun
    \/ \E rejects \in SUBSET RejectableTexts : ProviderChange(rejects)

Spec == Init /\ [][Next]_vars

---------------------------------------------------------------------------
(* Specification of the pure text splitting (SpecSplit): a session with   *)
(* one speaker whose text is any block of at most MaxTextLen characters.  *)

\* Two letters, two blanks that end no line, and four line boundaries.
SplitAlphabet == {"a", "b", " ", "U+00A0", "\n", "\r", "U+000B", "U+2028"}

AllTexts == UNION {[1..n -> SplitAlphabet] : n \in 0..MaxTextLen}

\* The session after the page was loaded, the second speaker removed and
\* the first speaker's text edited to t.
InitSplit ==
    /\ cache = [cached |-> TRUE, voices |-> Catalog]
    /\ voice_quality = QUALITY_OPTIONS[1]
    /\ sample_rate = SAMPLE_RATE_OPTIONS[1]
    /\ selected_language = "en-US"
    /\ has_speakers = TRUE
    /\ \E t \in AllTexts :
          speakers = <<[voice |-> "Ivy", lines |-> t, pause |-> 0]>>
    /\ VOICES = <<"Ivy", "Joanna">>
    /\ screen = {"sidebar", "form", "add_button", "generate_button"}
    /\ fetched = FALSE
    /\ requests = <<>>
    /\ audio_chunks = <<>>
    /\ tmp = <<>>
    /\ clicked = [button |-> "none", idx |-> 0]
    /\ rerun = FALSE
    /\ polly_rejects = {}

NextSplit ==
    \/ Rerun(FetchFailed)
    \/ Generate

SpecSplit == InitSplit /\ [][NextSplit]_vars

---------------------------------------------------------------------------
(* Specification of the voice filter (SpecFilter): the provider returns   *)
(* any catalog of at most MaxCatalogLen voices with distinct names.       *)

FilterVoices ==
    {Voice(n, l, e) : n \in {"Ivy", "Joanna", "Lea"},
                      l \in {"en-US", "fr-FR"},
                      e \in {{"standard"}, {"neural"}, {"generative", "neural"}}}

AllCatalogs ==
    UNION {{c \in [1..n -> FilterVoices] :
               \A i, j \in 1..n : c[i].Name = c[j].Name => i = j}
           : n \in 0..MaxCatalogLen}

NextFilter ==
    \/ \E fetch \in FetchOutcomes(AllCatalogs) : Rerun(fetch)
    \/ \E q \in Range(QUALITY_OPTIONS) : ChangeQuality(q)
    \/ \E l \in Range(languages(cache.voices)) : ChangeLanguage(l)
    \/ Generate

SpecFilter == Init /\ [][NextFilter]_vars

---------------------------------------------------------------------------
(* Specification of the turn count (SpecTurns): speakers are added and    *)
(* removed up to the program's limit; every filter has at most one voice. *)

TurnsCatalog ==
    << Voice("Matthew", "en-US", {"neural"}),
       Voice("Lea", "fr-FR", {"standard", "neural"}),
       Voice("Ivy", "en-US", {"generative"}) >>

NextTurns ==
    \/ \E fetch \in FetchOutcomes({TurnsCatalog}) : Rerun(fetch)
    \/ \E q \in Range(QUALITY_OPTIONS) : ChangeQuality(q)
    \/ \E l \in Range(languages(cache.voices)) : ChangeLanguage(l)
    \/ \E i \in 1..Len(speakers) : RemoveSpeaker(i)
    \/ AddSpeaker
    \/ StRerun

SpecTurns == Init /\ [][NextTurns]_vars

---------------------------------------------------------------------------
(* What the claims speak of, stated without the program's algorithm *)

\* Position i of s holds the first character that is not whitespace of
\* its line: everything before it on the line is whitespace.
FirstOfLine(s, i) ==
    /\ s[i] \notin Whitespace
    /\ \A j \in 1..(i - 1) :
          (\A k \in j..(i - 1) : s[k] \notin LineBoundaries)
              => s[j] \in Whitespace

\* Position i of s holds the last character that is not whitespace of
\* its line.
LastOfLine(s, i) ==
    /\ s[i] \notin Whitespace
    /\ \A j \in (i + 1)..Len(s) :
          (\A k \in (i + 1)..j : s[k] \notin LineBoundaries)
              => s[j] \in Whitespace

LineStarts(s) == {i \in 1..Len(s) : FirstOfLine(s, i)}

\* The number of lines of s that are not blank.
NonBlankLineCount(s) == Cardinality(LineStarts(s))

KthStart(s, k) ==
    CHOOSE i \in LineStarts(s) :
        Cardinality({j \in LineStarts(s) : j < i}) = k - 1

EndOfLine(s, i) ==
    CHOOSE e \in i..Len(s) :
        LastOfLine(s, e) /\ \A k \in i..e : s[k] \notin LineBoundaries

\* The non-blank lines of s, trimmed, in the order of the text.
NonBlankLines(s) ==
    [k \in 1..NonBlankLineCount(s) |->
        SubSeq(s, KthStart(s, k), EndOfLine(s, KthStart(s, k)))]

IsBlankText(s) == \A i \in 1..Len(s) : s[i] \in Whitespace

\* What a chunk is, leaving its bytes aside.
Shape(chunk) ==
    IF chunk.type = "speech"
    THEN <<"speech", chunk.of.Text, chunk.of.VoiceId, chunk.of.Engine,
           chunk.of.SampleRate>>
    ELSE <<"silence">>

Shapes(chunks) == [i \in 1..Len(chunks) |-> Shape(chunks[i])]

ExpectedTurn(sp, engine, rate) ==
    [k \in 1..NonBlankLineCount(sp.lines) |->
        <<"speech", NonBlankLines(sp.lines)[k], sp.voice, engine, rate>>]
    \o (IF sp.pause > 0 THEN << <<"silence">> >> ELSE <<>>)

RECURSIVE ExpectedSegments(_, _, _)
ExpectedSegments(sps, engine, rate) ==
    IF sps = <<>> THEN <<>>
    ELSE ExpectedTurn(Head(sps), engine, rate)
            \o ExpectedSegments(Tail(sps), engine, rate)

SpeechIndexes(chunks) == {i \in 1..Len(chunks) : chunks[i].type = "speech"}

GenerateRan == clicked.button = "generate"

GenerateSucceeded == GenerateRan /\ "polly_error" \notin screen

\* A step in which the provider changes and no script runs.
ProviderStep ==
    /\ polly_rejects' # polly_rejects
    /\ UNCHANGED <<cache, voice_quality, sample_rate, selected_language,
                   has_speakers, speakers, VOICES, screen, fetched, requests,
                   audio_chunks, tmp, clicked, rerun>>

\* A step that is a script run.
IsInteraction == ~ProviderStep

---------------------------------------------------------------------------
(* Claims *)

\* C1: when Generate runs and no synthesis call fails, the segments
\* collected and written are exactly, turn by turn in declared order, one
\* speech segment per non-blank line (trimmed, in line order, with the
\* turn's voice and the global quality tier and sample rate) followed by
\* one silence segment iff the turn's pause is positive; the synthesis
\* requests issued are those of the speech segments, in the same order.
C1_SegmentOrder ==
    GenerateSucceeded =>
        /\ Shapes(audio_chunks)
              = ExpectedSegments(speakers, voice_quality, sample_rate)
        /\ tmp = audio_chunks
        /\ Len(requests) = Cardinality(SpeechIndexes(audio_chunks))
        /\ \A k \in 1..Len(requests) :
              /\ requests[k].request.OutputFormat = "mp3"
              /\ \E i \in SpeechIndexes(audio_chunks) :
                    /\ Cardinality({j \in SpeechIndexes(audio_chunks) : j < i})
                          = k - 1
                    /\ audio_chunks[i].of = requests[k].request

C1_Witness ==
    /\ GenerateSucceeded
    /\ Len(speakers) = 2
    /\ speakers[1].lines = HiBye /\ speakers[1].pause > 0
    /\ speakers[1].voice # speakers[2].voice
    /\ Len(audio_chunks) = 5
    /\ audio_chunks[3].type = "silence"
    /\ "download" \in screen

\* C2: if a synthesis call fails it is the last call of the run, the
\* speech segments collected are those of the calls before it, and the run
\* writes no file and shows neither player, download nor warning.
C2_AbortOnError ==
    /\ \A k \in 1..Len(requests) :
          requests[k].raised =>
             /\ k = Len(requests)
             /\ Cardinality(SpeechIndexes(audio_chunks)) = k - 1
             /\ "polly_error" \in screen
    /\ "polly_error" \in screen =>
          /\ GenerateRan
          /\ requests # <<>> /\ requests[Len(requests)].raised
          /\ tmp = <<>>
          /\ screen \cap {"audio", "download", "empty_warning"} = {}

C2_Witness ==
    /\ "polly_error" \in screen
    /\ Len(requests) = 2
    /\ Len(audio_chunks) = 1
    /\ Len(ExpectedSegments(speakers, voice_quality, sample_rate)) > 3

\* C3: a Generate run over no turn, or over turns that are all blank with
\* pause 0, issues no synthesis call and ends with the warning and neither
\* an error nor a file; a run that collected a segment shows no warning.
C3_EmptyDialogue ==
    GenerateRan =>
        /\ (\A i \in 1..Len(speakers) :
               IsBlankText(speakers[i].lines) /\ speakers[i].pause = 0)
           => /\ requests = <<>>
              /\ audio_chunks = <<>>
              /\ tmp = <<>>
              /\ "empty_warning" \in screen
              /\ screen \cap {"polly_error", "audio", "download"} = {}
        /\ audio_chunks # <<>> => "empty_warning" \notin screen
        /\ "empty_warning" \in screen => requests = <<>> /\ tmp = <<>>

C3_Witness ==
    /\ GenerateRan
    /\ "empty_warning" \in screen
    /\ Len(speakers) = 2
    /\ speakers[1].lines = Blank
    /\ speakers[2].lines = <<>>

\* C4: in a Generate run over turns none of which has a non-blank line,
\* no synthesis call is issued and the segments are exactly one silence
\* per turn with a positive pause; if there is one, the run ends with a
\* file of silence segments only and not with the warning.
C4_BlankTurnSilence ==
    (GenerateRan /\ \A i \in 1..Len(speakers) : IsBlankText(speakers[i].lines))
    => /\ requests = <<>>
       /\ "polly_error" \notin screen
       /\ SpeechIndexes(audio_chunks) = {}
       /\ Len(audio_chunks)
             = Cardinality({i \in 1..Len(speakers) : speakers[i].pause > 0})
       /\ (\E i \in 1..Len(speakers) : speakers[i].pause > 0)
          => /\ tmp = audio_chunks
             /\ tmp # <<>>
             /\ {"audio", "download"} \subseteq screen
             /\ "empty_warning" \notin screen

C4_Witness ==
    /\ GenerateRan
    /\ Len(speakers) = 2
    /\ speakers[1].lines = Blank /\ speakers[1].pause > 0
    /\ speakers[2].lines = <<>> /\ speakers[2].pause = 0
    /\ Len(tmp) = 1 /\ tmp[1].type = "silence"
    /\ "download" \in screen

\* C5: for every text block, the texts synthesised for it are its
\* non-blank lines, trimmed, in the order of the text: each is non-empty
\* and starts and ends with a character that is not whitespace, there are
\* as many as the block has non-blank lines, and the run does not fail.
C5_LineSplitter ==
    (GenerateRan /\ Len(speakers) = 1) =>
        LET text == speakers[1].lines
            out == [k \in 1..Len(requests) |-> requests[k].request.Text]
        IN /\ "polly_error" \notin screen
           /\ \A k \in 1..Len(out) :
                 /\ out[k] # <<>>
                 /\ out[k][1] \notin Whitespace
                 /\ out[k][Len(out[k])] \notin Whitespace
           /\ Len(out) = NonBlankLineCount(text)
           /\ out = NonBlankLines(text)

C5_Witness ==
    /\ GenerateRan
    /\ Len(speakers) = 1
    /\ Len(speakers[1].lines) = MaxTextLen
    /\ speakers[1].lines[1] = "U+00A0"
    /\ speakers[1].lines[3] = "U+2028"
    /\ Len(requests) = 2
    /\ requests[1].request.Text = <<"a">>
    /\ requests[2].request.Text = <<"b">>

\* The voices valid for the filter the sidebar currently selects.
CurrentFilter == filter_voices(cache.voices, selected_language, voice_quality)

\* C6 as stated: after any sequence of actions every turn's voice is
\* valid for the currently selected language and quality.
C6_VoiceAlwaysValid ==
    has_speakers =>
        \A i \in 1..Len(speakers) : speakers[i].voice \in Range(CurrentFilter)

C6_FormInvariant ==
    "form" \in screen =>
        /\ VOICES = CurrentFilter
        /\ VOICES # <<>>
        /\ \A i \in 1..Len(speakers) : speakers[i].voice \in Range(VOICES)
        /\ \A k \in 1..Len(requests) :
              requests[k].request.VoiceId \in Range(VOICES)

C6_ResetStep ==
    (IsInteraction /\ has_speakers /\ "form" \in screen'
        /\ Len(speakers') = Len(speakers))
    => \A i \in 1..Len(speakers) :
          IF speakers[i].voice \in Range(VOICES')
          THEN clicked'.button # "none" => speakers'[i].voice = speakers[i].voice
          ELSE speakers'[i].voice = VOICES'[1]

C6_StaleStep ==
    (IsInteraction /\ "no_voices_error" \in screen')
    => /\ speakers' = speakers
       /\ requests' = <<>>
       /\ screen' \cap {"form", "add_button", "generate_button"} = {}

\* C6 (amended): in every script run that gets past the empty-filter stop
\* every turn's voice is in the filtered list of the selected language and
\* quality, a turn whose voice the filter change invalidated is reset to
\* the first voice of that list, and every synthesis request carries a
\* voice of that list; while the filter yields no voice the turns keep
\* their voices and neither editing nor Generate is offered.
C6_VoiceValidWhileFormShown ==
    /\ []C6_FormInvariant
    /\ [][C6_ResetStep /\ C6_StaleStep]_vars

\* The first speaker, created under en-US with its initial text, now
\* carries the fr-FR voice and has been synthesised with it.
C6_Witness ==
    /\ "form" \in screen
    /\ selected_language = "fr-FR"
    /\ Len(speakers) = 2
    /\ speakers[1].lines = Hello
    /\ speakers[1].voice = "Lea"
    /\ GenerateRan
    /\ Len(requests) = 4
    /\ requests[1].request.VoiceId = "Lea"

\* C7: the filtered list holds a voice of the catalog iff the voice's
\* language is the selected one and the selected quality is among its
\* engines; when the list is empty the run shows the no-voices message and
\* neither the form nor the Generate button, and issues no request.
C7_VoiceFilter ==
    "sidebar" \in screen =>
        /\ \A i \in 1..Len(cache.voices) :
              (cache.voices[i].Name \in Range(VOICES))
              <=> /\ cache.voices[i].LanguageCode = selected_language
                  /\ voice_quality \in cache.voices[i].SupportedEngines
        /\ \A n \in Range(VOICES) :
              \E i \in 1..Len(cache.voices) : cache.voices[i].Name = n
        /\ VOICES = <<>> =>
              /\ screen = {"sidebar", "no_voices_error"}
              /\ requests = <<>> /\ tmp = <<>>
        /\ VOICES # <<>> =>
              /\ "no_voices_error" \notin screen
              /\ "form" \in screen

C7_Witness ==
    /\ "no_voices_error" \in screen
    /\ Len(cache.voices) = MaxCatalogLen
    /\ \A i \in 1..Len(cache.voices) :
          cache.voices[i].LanguageCode = selected_language
    /\ voice_quality = "generative"
    /\ has_speakers

\* The provider answers the run of this step as it answered the run
\* before: a request the earlier run made gets the answer it got then.
StubAnswersAsBefore ==
    \A j \in 1..Len(requests), k \in 1..Len(requests') :
        requests[j].request = requests'[k].request
            => requests[j].raised = requests'[k].raised

\* C8: a Generate run that directly follows a Generate run, against a
\* provider that answers as it did, issues the same requests with the
\* same outcomes, collects segments of the same types in the same order
\* and ends the same way (also after an aborted run); and no Generate run
\* changes the turns.
C8_Step ==
    (IsInteraction /\ clicked'.button = "generate")
    => /\ speakers' = speakers
       /\ has_speakers' = has_speakers
       /\ (GenerateRan /\ StubAnswersAsBefore) =>
             /\ requests' = requests
             /\ Shapes(audio_chunks') = Shapes(audio_chunks)
             /\ Shapes(tmp') = Shapes(tmp)
             /\ screen' = screen

C8_RunIndependence == [][C8_Step]_vars

\* A Generate run against a stub that rejects one text throughout has
\* aborted after collecting segments, and Generate can be pressed again.
C8_Witness ==
    /\ GenerateRan
    /\ \A k \in 1..Len(requests) :
          requests[k].raised <=> requests[k].request.Text \in polly_rejects
    /\ polly_rejects # {}
    /\ "polly_error" \in screen
    /\ Len(requests) = 4
    /\ Len(audio_chunks) = 4
    /\ "generate_button" \in screen

\* C9: a run in which the catalog fetch fails shows only the error: it
\* creates no turn, changes none and issues no request; once a fetch has
\* succeeded the catalog stays cached as it is and is not fetched again.
C9_State ==
    /\ "catalog_error" \in screen =>
          /\ screen = {"catalog_error"}
          /\ ~cache.cached
          /\ ~has_speakers /\ speakers = <<>>
          /\ requests = <<>> /\ tmp = <<>> /\ VOICES = <<>>
    /\ cache.cached <=> "sidebar" \in screen

C9_Step ==
    /\ cache.cached => cache' = cache /\ (IsInteraction => ~fetched')
    /\ "catalog_error" \in screen' =>
          speakers' = speakers /\ has_speakers' = has_speakers

C9_CatalogUnavailable == []C9_State /\ [][C9_Step]_vars

C9_Witness ==
    /\ cache.cached
    /\ ~fetched
    /\ GenerateRan
    /\ requests # <<>>

\* C10: there are never more than 20 turns; a finished render of the form
\* offers the add button exactly while there are fewer than 20 turns, and
\* otherwise the button is on the page only in the run that has just
\* added a turn and is about to rerun; adding happens only with fewer
\* than 20 turns and appends one turn with empty text, pause 0 and a voice
\* of the filtered list, leaving the others as they are; removing deletes
\* the chosen turn and leaves the others and their order as they are; no
\* other run changes the number of turns.
C10_State ==
    /\ Len(speakers) <= MAX_SPEAKERS
    /\ "generate_button" \in screen =>
          ("add_button" \in screen <=> Len(speakers) < MAX_SPEAKERS)
    /\ ("add_button" \in screen /\ "generate_button" \notin screen) =>
          /\ rerun /\ clicked.button = "add"
          /\ "form" \in screen
    /\ rerun <=> clicked.button \in {"add", "del"}
    /\ ~has_speakers => speakers = <<>>

C10_Step ==
    /\ (IsInteraction /\ clicked'.button = "add") =>
          /\ Len(speakers) < MAX_SPEAKERS
          /\ Len(speakers') = Len(speakers) + 1
          /\ SubSeq(speakers', 1, Len(speakers)) = speakers
          /\ speakers'[Len(speakers')].lines = <<>>
          /\ speakers'[Len(speakers')].pause = 0
          /\ speakers'[Len(speakers')].voice \in Range(VOICES')
    /\ (IsInteraction /\ clicked'.button = "del") =>
          /\ clicked'.idx \in 1..Len(speakers)
          /\ speakers' = Pop(speakers, clicked'.idx)
    /\ (IsInteraction /\ clicked'.button \notin {"add", "del"}) =>
          (has_speakers => Len(speakers') = Len(speakers))
    /\ (~has_speakers /\ has_speakers') =>
          /\ Len(speakers') = 2
          /\ \A i \in 1..2 : speakers'[i].voice \in Range(VOICES')

C10_TurnCount == []C10_State /\ [][C10_Step]_vars

\* The twentieth turn has just been added, after the first of the initial
\* two was removed, and the rerun is pending.
C10_Witness ==
    /\ Len(speakers) = MAX_SPEAKERS
    /\ rerun
    /\ clicked.button = "add"
    /\ "generate_button" \notin screen
    /\ speakers[1].lines = Great
    /\ speakers[MAX_SPEAKERS].lines = <<>>

=============================================================================
